---- MODULE Spec2Model ----
(***************************************************************************)
(* State-machine model of GitWorktreeManager (src/git/worktree_manager.py). *)
(*                                                                         *)
(* Shared state: the SQLite table "worktrees" (db), the git repository's   *)
(* worktree and branch namespaces, and the wall clock.  Callers (threads   *)
(* or processes sharing one repository and one database file) run the      *)
(* public methods concurrently; every statement that reads or writes the   *)
(* shared state is one step, so the steps of different callers interleave. *)
(***************************************************************************)
EXTENDS Integers, Sequences, FiniteSets, TLC

\* ------------------------------------------------------------------ bounds
MaxClock == 3
MaxThreshold == 1
MaxLines == 2

Procs == {"p1", "p2"}
Agents == {"a1", "a2"}
\* Branch names are tuples of their parts: "main" is <<"main">>, "agent-a1" is <<"agent-", "a1">>
BaseBranches == {<<"main">>, <<"nosuch">>}
Thresholds == 0..MaxThreshold
Times == 1..MaxClock

VARIABLES db, gitWorktrees, gitBranches, dirty, clock, faulty, call

vars == <<db, gitWorktrees, gitBranches, dirty, clock, faulty, call>>

\* ------------------------------------------------------- naming and time
\* worktree_path = self.worktree_base_dir / f"worktree-{agent_id}"
WorktreePath(agent_id) == <<"worktree_base_dir", "worktree-", agent_id>>

\* branch_name = f"agent-{agent_id}"
BranchName(agent_id) == <<"agent-", agent_id>>

\* datetime.isoformat(): the TEXT stored in the created_at/last_active columns
isoformat(t) == [iso |-> t]

\* datetime.fromisoformat(): the datetime a stored TEXT denotes
fromisoformat(s) == s.iso

\* One row of the table
Row(agent_id, path, branch, created_at, last_active, status) ==
    [agent_id |-> agent_id, path |-> path, branch |-> branch,
     created_at |-> created_at, last_active |-> last_active, status |-> status]

\* WorktreeInfo built from a row (row[3], row[4] parsed back to datetimes)
WorktreeInfo(row) ==
    [agent_id |-> row.agent_id, path |-> row.path, branch |-> row.branch,
     created_at |-> fromisoformat(row.created_at),
     last_active |-> fromisoformat(row.last_active), status |-> row.status]

\* Optional[WorktreeInfo]: <<>> is None, <<w>> is a value
None == <<>>

\* _get_worktree: SELECT ... WHERE agent_id = ?
get_worktree(tbl, agent_id) ==
    IF agent_id \in DOMAIN tbl THEN <<WorktreeInfo(tbl[agent_id])>> ELSE None

\* The sequences over S without repetition that contain all of S
Perms(S) ==
    {s \in [1..Cardinality(S) -> S] : \A i, j \in 1..Cardinality(S) : s[i] = s[j] => i = j}

\* list_worktrees: SELECT ... ORDER BY created_at DESC.  The column is TEXT of
\* one fixed UTC format, so text order is time order; rows with equal
\* created_at come in an order SQLite does not fix.
list_worktrees(tbl) ==
    {[i \in DOMAIN s |-> WorktreeInfo(tbl[s[i]])] : s \in
        {q \in Perms(DOMAIN tbl) : \A i, j \in DOMAIN q :
            i < j => fromisoformat(tbl[q[i]].created_at) >= fromisoformat(tbl[q[j]].created_at)}}

\* ------------------------------------------------------------ call frames
\* call[p] is the frame of caller p: where it is in the method it runs (pc),
\* the method's arguments and locals, and a record of what the call has done
\* so far: ext, the git commands it has run; committed, the agent ids of the
\* INSERT, UPDATE and DELETE statements it has committed;
\* attempted, the agents the sweep has called remove_worktree for;
\* report, what the dry-run merge of detect_conflicts gave (<<>> before it ran);
\* rival_inserted, whether another create_worktree call inserted the row of the
\* same agent after this call had passed its existence check.
Idle ==
    [pc |-> "idle", op |-> "none", agent_id |-> "", base_branch |-> <<>>, force |-> FALSE,
     now |-> 0, worktree |-> None, worktrees |-> <<>>, i |-> 0, cleaned |-> 0,
     threshold |-> 0, result |-> "", ext |-> {}, committed |-> {}, attempted |-> {},
     target_branch |-> <<>>, report |-> <<>>, conflicts |-> <<>>,
     rival_inserted |-> FALSE]

Init ==
    /\ db = <<>>
    /\ gitWorktrees = {}
    /\ gitBranches = {<<"main">>}
    /\ dirty = {}
    /\ clock = 0
    /\ faulty = TRUE
    /\ call = [p \in Procs |-> Idle]

\* The frame of a call that ended with the given result (a return or an
\* exception): what the caller sees and what the call did; the sweep's frame
\* also keeps its listing, its clock reading and its counters, the other
\* locals are gone
Finish(frame, result) ==
    [Idle EXCEPT !.pc = "done", !.op = frame.op, !.result = result,
                 !.agent_id = IF frame.op = "sweep" THEN "" ELSE frame.agent_id,
                 !.ext = frame.ext, !.committed = frame.committed, !.attempted = frame.attempted,
                 !.now = IF frame.op = "sweep" THEN frame.now ELSE 0,
                 !.threshold = frame.threshold, !.worktrees = frame.worktrees,
                 !.cleaned = frame.cleaned, !.report = frame.report,
                 !.conflicts = frame.conflicts, !.rival_inserted = frame.rival_inserted]

SetCall(p, frame) == call' = [call EXCEPT ![p] = frame]

\* ------------------------------------------------- the external git tool
\* git worktree add <path> -b <branch> <base>: refuses an existing path, an
\* existing branch name and a missing base
CanWorktreeAdd(path, branch, base) ==
    /\ path \notin gitWorktrees
    /\ branch \notin gitBranches
    /\ base \in gitBranches

\* git worktree remove <path> [--force]: refuses a path that is no worktree,
\* and without --force a worktree with uncommitted changes
CanWorktreeRemove(path, force) ==
    /\ path \in gitWorktrees
    /\ (force \/ path \notin dirty)

\* git branch -D <branch>: refuses a missing branch and one checked out in a worktree
CanBranchDelete(branch) ==
    /\ branch \in gitBranches
    /\ \A a \in Agents : branch = BranchName(a) => WorktreePath(a) \notin gitWorktrees

\* Outcomes the tool can have when its preconditions hold: it can also fail
\* for reasons outside the model (locks, permissions, disk) while faulty
Outcomes(can) == IF can THEN (IF faulty THEN BOOLEAN ELSE {TRUE}) ELSE {FALSE}

\* ------------------------------------------------------------------ clock
\* datetime.now(timezone.utc): time has passed since the previous reading
ReadClock(t) == t \in Times /\ t > clock /\ clock' = t

\* ----------------------------------------------------------- create_worktree
\* create_worktree without its existence check
create_worktree_nocheck(p, agent_id, base_branch) ==
    /\ call[p].pc = "idle"
    /\ SetCall(p, [Idle EXCEPT !.op = "create", !.agent_id = agent_id,
                               !.base_branch = base_branch, !.pc = "create_add"])
    /\ UNCHANGED <<db, gitWorktrees, gitBranches, dirty, clock, faulty>>

\* Lines 196-201: the existence check
create_worktree(p, agent_id, base_branch) ==
    /\ call[p].pc = "idle"
    /\ LET existing == get_worktree(db, agent_id)
           frame == [Idle EXCEPT !.op = "create", !.agent_id = agent_id,
                                 !.base_branch = base_branch]
       IN IF existing # None
          THEN SetCall(p, Finish(frame, "ValueError: already exists"))
          ELSE SetCall(p, [frame EXCEPT !.pc = "create_add"])
    /\ UNCHANGED <<db, gitWorktrees, gitBranches, dirty, clock, faulty>>

\* create_add with the failure of git worktree add logged and not re-raised
create_add_swallow(p) ==
    /\ call[p].pc = "create_add"
    /\ LET f == call[p]
           path == WorktreePath(f.agent_id)
           branch == BranchName(f.agent_id)
           called == [f EXCEPT !.ext = @ \cup {"worktree add"}, !.pc = "create_now"]
       IN \E ok \in Outcomes(CanWorktreeAdd(path, branch, f.base_branch)) :
            /\ gitWorktrees' = IF ok THEN gitWorktrees \cup {path} ELSE gitWorktrees
            /\ gitBranches' = IF ok THEN gitBranches \cup {branch} ELSE gitBranches
            /\ SetCall(p, called)
    /\ UNCHANGED <<db, dirty, clock, faulty>>

\* Lines 206-221: git worktree add; CalledProcessError is logged and re-raised
create_add(p) ==
    /\ call[p].pc = "create_add"
    /\ LET f == call[p]
           path == WorktreePath(f.agent_id)
           branch == BranchName(f.agent_id)
           called == [f EXCEPT !.ext = @ \cup {"worktree add"}]
       IN \E ok \in Outcomes(CanWorktreeAdd(path, branch, f.base_branch)) :
            IF ok
            THEN /\ gitWorktrees' = gitWorktrees \cup {path}
                 /\ gitBranches' = gitBranches \cup {branch}
                 /\ SetCall(p, [called EXCEPT !.pc = "create_now"])
            ELSE /\ UNCHANGED <<gitWorktrees, gitBranches>>
                 /\ SetCall(p, Finish(called, "CalledProcessError"))
    /\ UNCHANGED <<db, dirty, clock, faulty>>

\* Line 224: now = datetime.now(timezone.utc).isoformat()
create_now(p) ==
    /\ call[p].pc = "create_now"
    /\ \E t \in Times :
         /\ ReadClock(t)
         /\ SetCall(p, [call[p] EXCEPT !.pc = "create_insert", !.now = t])
    /\ UNCHANGED <<db, gitWorktrees, gitBranches, dirty, faulty>>

\* create_insert without conn.commit(): the INSERT is rolled back at close
create_insert_nocommit(p) ==
    /\ call[p].pc = "create_insert"
    /\ SetCall(p, Finish(call[p],
                         IF call[p].agent_id \in DOMAIN db THEN "IntegrityError" ELSE "returned"))
    /\ UNCHANGED <<db, gitWorktrees, gitBranches, dirty, clock, faulty>>

\* The frames after caller p's INSERT for agent a has been committed: p's call
\* has returned, and every other create_worktree call for a that is past its
\* existence check has a rival that inserted
Inserted(p, a) ==
    [q \in Procs |->
        IF q = p
        THEN Finish([call[p] EXCEPT !.committed = @ \cup {a}], "returned")
        ELSE IF /\ call[q].op = "create"
                /\ call[q].agent_id = a
                /\ call[q].pc \in {"create_add", "create_now", "create_insert"}
             THEN [call[q] EXCEPT !.rival_inserted = TRUE]
             ELSE call[q]]

\* create_insert as INSERT OR REPLACE: an existing row is overwritten
create_insert_replace(p) ==
    /\ call[p].pc = "create_insert"
    /\ LET f == call[p]
           a == f.agent_id
           now == isoformat(f.now)
       IN /\ db' = [x \in DOMAIN db \cup {a} |->
                       IF x = a
                       THEN Row(a, WorktreePath(a), BranchName(a), now, now, "active")
                       ELSE db[x]]
          /\ call' = Inserted(p, a)
    /\ UNCHANGED <<gitWorktrees, gitBranches, dirty, clock, faulty>>

\* Lines 225-238: INSERT; the PRIMARY KEY makes a second row for the agent an
\* sqlite3.IntegrityError, which the except clause does not catch
create_insert(p) ==
    /\ call[p].pc = "create_insert"
    /\ LET f == call[p]
           a == f.agent_id
           now == isoformat(f.now)
       IN IF a \in DOMAIN db
          THEN /\ UNCHANGED db
               /\ SetCall(p, Finish(f, "IntegrityError"))
          ELSE /\ db' = [x \in DOMAIN db \cup {a} |->
                            IF x = a
                            THEN Row(a, WorktreePath(a), BranchName(a), now, now, "active")
                            ELSE db[x]]
               /\ call' = Inserted(p, a)
    /\ UNCHANGED <<gitWorktrees, gitBranches, dirty, clock, faulty>>

\* ----------------------------------------------------------- remove_worktree
\* EndRemove with the sweep's try/except lost: an exception ends the sweep
EndRemove_abort(frame, result) ==
    IF frame.op = "sweep" /\ result = "returned"
    THEN [frame EXCEPT !.pc = "sweep_loop", !.i = @ + 1, !.cleaned = @ + 1,
                       !.agent_id = "", !.force = FALSE, !.worktree = None]
    ELSE Finish(frame, result)

\* How remove_worktree ends.  Called by the caller it returns or raises; called
\* from the sweep (lines 508-512) a return counts one more cleaned worktree,
\* any exception is logged, and the loop goes on to the next listed worktree.
EndRemove(frame, result) ==
    IF frame.op = "sweep"
    THEN [frame EXCEPT !.pc = "sweep_loop", !.i = @ + 1,
                       !.cleaned = IF result = "returned" THEN @ + 1 ELSE @,
                       !.agent_id = "", !.force = FALSE, !.worktree = None]
    ELSE Finish(frame, result)

\* The fields of its worktree object that remove_worktree reads: path and branch
Used(worktree) ==
    [k \in DOMAIN worktree |-> [path |-> worktree[k].path, branch |-> worktree[k].branch]]

\* BeginRemove deriving path and branch from agent_id in place of the lookup
BeginRemove_derive(frame, agent_id, force) ==
    [frame EXCEPT !.agent_id = agent_id, !.force = force, !.pc = "remove_wt",
                  !.worktree = <<[path |-> WorktreePath(agent_id),
                                  branch |-> BranchName(agent_id)]>>]

\* Lines 261-265: the existence check of remove_worktree
BeginRemove(frame, agent_id, force) ==
    LET worktree == get_worktree(db, agent_id)
        f == [frame EXCEPT !.agent_id = agent_id, !.force = force,
                           !.worktree = Used(worktree)]
    IN IF worktree = None
       THEN EndRemove(f, "ValueError: does not exist")
       ELSE [f EXCEPT !.pc = "remove_wt"]

remove_worktree(p, agent_id, force) ==
    /\ call[p].pc = "idle"
    /\ SetCall(p, BeginRemove([Idle EXCEPT !.op = "remove"], agent_id, force))
    /\ UNCHANGED <<db, gitWorktrees, gitBranches, dirty, clock, faulty>>

\* Lines 269-279: git worktree remove <worktree.path> [--force]
remove_wt(p) ==
    /\ call[p].pc = "remove_wt"
    /\ LET f == call[p]
           path == f.worktree[1].path
           called == [f EXCEPT !.ext = @ \cup {"worktree remove"}]
       IN \E ok \in Outcomes(CanWorktreeRemove(path, f.force)) :
            IF ok
            THEN /\ gitWorktrees' = gitWorktrees \ {path}
                 /\ dirty' = dirty \ {path}
                 /\ SetCall(p, [called EXCEPT !.pc = "remove_branch"])
            ELSE /\ UNCHANGED <<gitWorktrees, dirty>>
                 /\ SetCall(p, EndRemove(called, "CalledProcessError"))
    /\ UNCHANGED <<db, gitBranches, clock, faulty>>

\* remove_branch run with check=False: a failed git branch -D goes unnoticed
remove_branch_unchecked(p) ==
    /\ call[p].pc = "remove_branch"
    /\ LET f == call[p]
           branch == f.worktree[1].branch
           called == [f EXCEPT !.ext = @ \cup {"branch -D"}, !.pc = "remove_delete"]
       IN \E ok \in Outcomes(CanBranchDelete(branch)) :
            /\ gitBranches' = IF ok THEN gitBranches \ {branch} ELSE gitBranches
            /\ SetCall(p, called)
    /\ UNCHANGED <<db, gitWorktrees, dirty, clock, faulty>>

\* Lines 282-288: git branch -D <worktree.branch>
remove_branch(p) ==
    /\ call[p].pc = "remove_branch"
    /\ LET f == call[p]
           branch == f.worktree[1].branch
           called == [f EXCEPT !.ext = @ \cup {"branch -D"}]
       IN \E ok \in Outcomes(CanBranchDelete(branch)) :
            IF ok
            THEN /\ gitBranches' = gitBranches \ {branch}
                 /\ SetCall(p, [called EXCEPT !.pc = "remove_delete"])
            ELSE /\ UNCHANGED gitBranches
                 /\ SetCall(p, EndRemove(called, "CalledProcessError"))
    /\ UNCHANGED <<db, gitWorktrees, dirty, clock, faulty>>

\* remove_delete with the WHERE clause lost: DELETE FROM worktrees
remove_delete_all(p) ==
    /\ call[p].pc = "remove_delete"
    /\ db' = <<>>
    /\ SetCall(p, EndRemove([call[p] EXCEPT !.committed = @ \cup {call[p].agent_id}],
                            "returned"))
    /\ UNCHANGED <<gitWorktrees, gitBranches, dirty, clock, faulty>>

\* remove_delete keeping the row and marking it: UPDATE ... SET status = 'merged'
remove_delete_mark(p) ==
    /\ call[p].pc = "remove_delete"
    /\ LET f == call[p]
           a == f.agent_id
       IN /\ db' = [x \in DOMAIN db |-> IF x = a THEN [db[x] EXCEPT !.status = "merged"]
                                                 ELSE db[x]]
          /\ SetCall(p, EndRemove([f EXCEPT !.committed = @ \cup {a}], "returned"))
    /\ UNCHANGED <<gitWorktrees, gitBranches, dirty, clock, faulty>>

\* Lines 291-297: DELETE FROM worktrees WHERE agent_id = ?
remove_delete(p) ==
    /\ call[p].pc = "remove_delete"
    /\ LET f == call[p]
           a == f.agent_id
       IN /\ db' = [x \in DOMAIN db \ {a} |-> db[x]]
          /\ SetCall(p, EndRemove([f EXCEPT !.committed = @ \cup {a}], "returned"))
    /\ UNCHANGED <<gitWorktrees, gitBranches, dirty, clock, faulty>>

\* -------------------------------------------------------- update_last_active
\* Line 464: now = datetime.now(timezone.utc).isoformat()
update_last_active(p, agent_id) ==
    /\ call[p].pc = "idle"
    /\ \E t \in Times :
         /\ ReadClock(t)
         /\ SetCall(p, [Idle EXCEPT !.op = "touch", !.pc = "touch_update",
                                    !.agent_id = agent_id, !.now = t])
    /\ UNCHANGED <<db, gitWorktrees, gitBranches, dirty, faulty>>

\* Touched as UPDATE worktrees SET created_at = ?, last_active = ? WHERE agent_id = ?
Touched_created(tbl, agent_id, now) ==
    [x \in DOMAIN tbl |-> IF x = agent_id
                          THEN [tbl[x] EXCEPT !.created_at = now, !.last_active = now]
                          ELSE tbl[x]]

\* Touched as an upsert: INSERT ... ON CONFLICT(agent_id) DO UPDATE SET last_active = ?
Touched_upsert(tbl, agent_id, now) ==
    [x \in DOMAIN tbl \cup {agent_id} |->
        IF x = agent_id
        THEN IF x \in DOMAIN tbl
             THEN [tbl[x] EXCEPT !.last_active = now]
             ELSE Row(x, WorktreePath(x), BranchName(x), now, now, "active")
        ELSE tbl[x]]

\* The table after UPDATE worktrees SET last_active = ? WHERE agent_id = ?
Touched(tbl, agent_id, now) ==
    [x \in DOMAIN tbl |-> IF x = agent_id THEN [tbl[x] EXCEPT !.last_active = now] ELSE tbl[x]]

\* Lines 465-478: the UPDATE; a statement that matches no row is no error
touch_update(p) ==
    /\ call[p].pc = "touch_update"
    /\ LET f == call[p]
       IN /\ db' = Touched(db, f.agent_id, isoformat(f.now))
          /\ SetCall(p, Finish([f EXCEPT !.committed = @ \cup {f.agent_id}], "returned"))
    /\ UNCHANGED <<gitWorktrees, gitBranches, dirty, clock, faulty>>

\* ---------------------------------------------------- cleanup_stale_worktrees
\* Line 497: now = datetime.now(timezone.utc)
cleanup_stale_worktrees(p, stale_threshold_minutes) ==
    /\ call[p].pc = "idle"
    /\ \E t \in Times :
         /\ ReadClock(t)
         /\ SetCall(p, [Idle EXCEPT !.op = "sweep", !.pc = "sweep_list",
                                    !.threshold = stale_threshold_minutes, !.now = t])
    /\ UNCHANGED <<db, gitWorktrees, gitBranches, dirty, faulty>>

\* The fields of the listed worktree objects that the sweep reads
Listed(listing) ==
    [k \in DOMAIN listing |->
        [agent_id |-> listing[k].agent_id, last_active |-> listing[k].last_active]]

\* Lines 498-499: worktrees = self.list_worktrees(); cleaned = 0
sweep_list(p) ==
    /\ call[p].pc = "sweep_list"
    /\ \E listing \in list_worktrees(db) :
         SetCall(p, [call[p] EXCEPT !.pc = "sweep_loop", !.worktrees = Listed(listing),
                                    !.i = 1, !.cleaned = 0])
    /\ UNCHANGED <<db, gitWorktrees, gitBranches, dirty, clock, faulty>>

\* Line 502-503: inactive_minutes > stale_threshold_minutes (the clock counts minutes)
IsStale(wt, now, stale_threshold_minutes) ==
    now - wt.last_active > stale_threshold_minutes

\* Lines 501-515: one iteration of the loop, up to the existence check of the
\* remove_worktree(wt.agent_id, force=True) it calls; after the last one, return cleaned
sweep_loop(p) ==
    /\ call[p].pc = "sweep_loop"
    /\ LET f == call[p]
       IN IF f.i > Len(f.worktrees)
          THEN SetCall(p, Finish(f, "returned"))
          ELSE LET wt == f.worktrees[f.i]
               IN IF IsStale(wt, f.now, f.threshold)
                  THEN SetCall(p, BeginRemove([f EXCEPT !.attempted = @ \cup {wt.agent_id}],
                                              wt.agent_id, TRUE))
                  ELSE SetCall(p, [f EXCEPT !.i = @ + 1])
    /\ UNCHANGED <<db, gitWorktrees, gitBranches, dirty, clock, faulty>>

\* ------------------------------------------------------------- Python str
\* Strings are sequences of characters: Len, SubSeq and \o apply to them
UpperCase == "ABCDEFGHIJKLMNOPQRSTUVWXYZ"

LowerCase == "abcdefghijklmnopqrstuvwxyz"

\* The characters str.split() splits on (those that occur in the reports)
Whitespace == {" ", "\t"}

\* The i-th character of s
Char(s, i) == SubSeq(s, i, i)

\* s[i:]
From(s, i) == SubSeq(s, i, Len(s))

\* str.lower()
RECURSIVE lower(_)
lower(s) ==
    IF Len(s) = 0 THEN ""
    ELSE LET c == Char(s, 1)
             up == {i \in 1..Len(UpperCase) : Char(UpperCase, i) = c}
         IN (IF up = {} THEN c ELSE Char(LowerCase, CHOOSE i \in up : TRUE)) \o lower(From(s, 2))

\* sub in s
contains(s, sub) ==
    \E i \in 1..(Len(s) - Len(sub) + 1) : SubSeq(s, i, i + Len(sub) - 1) = sub

\* s.startswith(prefix)
startswith(s, prefix) ==
    Len(s) >= Len(prefix) /\ SubSeq(s, 1, Len(prefix)) = prefix

\* The positions of s that hold a character of the set
Positions(s, chars) == {i \in 1..Len(s) : Char(s, i) \in chars}

\* The least element of a non-empty set of numbers
Min(S) == CHOOSE i \in S : \A j \in S : i <= j

\* s.split(sep) for a one-character separator: empty pieces are kept
RECURSIVE split_on(_, _)
split_on(s, sep) ==
    LET at == Positions(s, {sep})
    IN IF at = {} THEN <<s>>
       ELSE <<SubSeq(s, 1, Min(at) - 1)>> \o split_on(From(s, Min(at) + 1), sep)

\* s.split(): runs of whitespace separate, no empty pieces
RECURSIVE split(_)
split(s) ==
    LET black == {i \in 1..Len(s) : Char(s, i) \notin Whitespace}
    IN IF black = {} THEN <<>>
       ELSE LET rest == From(s, Min(black))
                white == Positions(rest, Whitespace)
            IN IF white = {} THEN <<rest>>
               ELSE <<SubSeq(rest, 1, Min(white) - 1)>> \o split(From(rest, Min(white)))

\* "\n".join(lines)
RECURSIVE join_lines(_)
join_lines(lines) ==
    IF Len(lines) = 0 THEN ""
    ELSE IF Len(lines) = 1 THEN lines[1]
    ELSE lines[1] \o "\n" \o join_lines(Tail(lines))

\* ---------------------------------------------------------- detect_conflicts
\* ConflictFile(path=..., conflict_type=...): the versions default to None
ConflictFile(path, conflict_type) ==
    [path |-> path, conflict_type |-> conflict_type,
     our_version |-> None, their_version |-> None, base_version |-> None]

\* scan_lines taking the path from the fourth token, not the last
RECURSIVE scan_lines_fourth(_)
scan_lines_fourth(lines) ==
    IF Len(lines) = 0 THEN <<>>
    ELSE LET line == Head(lines)
             parts == split(line)
         IN (IF startswith(line, "changed in both") /\ Len(parts) >= 4
             THEN <<ConflictFile(parts[4], "content")>>
             ELSE <<>>) \o scan_lines_fourth(Tail(lines))

\* Lines 395-406: the loop over the lines of the report
RECURSIVE scan_lines(_)
scan_lines(lines) ==
    IF Len(lines) = 0 THEN <<>>
    ELSE LET line == Head(lines)
             parts == split(line)
         IN (IF startswith(line, "changed in both") /\ Len(parts) >= 4
             THEN <<ConflictFile(parts[Len(parts)], "content")>>
             ELSE <<>>) \o scan_lines(Tail(lines))

\* parse_conflicts scanning every report, whatever its status and text
parse_conflicts_always(returncode, stdout) ==
    scan_lines(split_on(stdout, "\n"))

\* Lines 390-409: the conflicts detect_conflicts returns for a report
parse_conflicts(returncode, stdout) ==
    IF returncode # 0 \/ contains(lower(stdout), "conflict")
    THEN scan_lines(split_on(stdout, "\n"))
    ELSE <<>>

\* What git merge-tree gave: its exit status and its standard output
Report(returncode, stdout) == [returncode |-> returncode, stdout |-> stdout]

\* Lines of reports
ReportLines ==
    {"changed in both x f.txt", "changed in both f.txt", "changed in both",
     " changed in both x f.txt", "changed in both x\tconflict.py",
     "CONFLICT in g.txt", "added in remote g.txt", ""}

\* The reports of up to MaxLines lines, with exit status 0 or 1
Reports ==
    {Report(rc, join_lines(ls)) :
        rc \in {0, 1}, ls \in UNION {[1..n -> ReportLines] : n \in 0..MaxLines}}

\* A clean report and one with a conflict
CoreReports == {Report(0, ""), Report(1, "changed in both x f.txt")}

\* Lines 374-378: the existence check of detect_conflicts
detect_conflicts(p, agent_id, target_branch) ==
    /\ call[p].pc = "idle"
    /\ LET worktree == get_worktree(db, agent_id)
           frame == [Idle EXCEPT !.op = "detect", !.agent_id = agent_id]
       IN IF worktree = None
          THEN SetCall(p, Finish(frame, "ValueError: does not exist"))
          ELSE SetCall(p, [frame EXCEPT !.pc = "detect_merge", !.worktree = Used(worktree),
                                        !.target_branch = target_branch])
    /\ UNCHANGED <<db, gitWorktrees, gitBranches, dirty, clock, faulty>>

\* dry_run_merge counting the check as activity of the agent
dry_run_merge_touch(p, reports) ==
    /\ call[p].pc = "detect_merge"
    /\ \E report \in reports :
         SetCall(p, Finish([call[p] EXCEPT !.ext = @ \cup {"merge-tree"}, !.report = report,
                                           !.conflicts = parse_conflicts(report.returncode,
                                                                         report.stdout)],
                           "returned"))
    /\ db' = Touched(db, call[p].agent_id, isoformat(clock + 1))
    /\ UNCHANGED <<gitWorktrees, gitBranches, dirty, clock, faulty>>

\* Lines 380-409: git merge-tree <target_branch> <worktree.branch> with
\* check=False, then the parse.  git exits with 128 and prints nothing on
\* standard output when a branch does not exist; what it reports for two
\* existing branches depends on their content, which is any of the reports.
dry_run_merge(p, reports) ==
    /\ call[p].pc = "detect_merge"
    /\ LET f == call[p]
           known == {f.target_branch, f.worktree[1].branch} \subseteq gitBranches
       IN \E report \in (IF known THEN reports ELSE {Report(128, "")}) :
            SetCall(p, Finish([f EXCEPT !.ext = @ \cup {"merge-tree"}, !.report = report,
                                        !.conflicts = parse_conflicts(report.returncode,
                                                                      report.stdout)],
                              "returned"))
    /\ UNCHANGED <<db, gitWorktrees, gitBranches, dirty, clock, faulty>>

\* ------------------------------------------------------------- environment
\* The caller takes the result (or the exception) of its finished call
Return(p) ==
    /\ call[p].pc = "done"
    /\ SetCall(p, Idle)
    /\ UNCHANGED <<db, gitWorktrees, gitBranches, dirty, clock, faulty>>

\* An agent edits files in its worktree and leaves them uncommitted
AgentEdits(agent_id) ==
    /\ WorktreePath(agent_id) \in gitWorktrees
    /\ WorktreePath(agent_id) \notin dirty
    /\ dirty' = dirty \cup {WorktreePath(agent_id)}
    /\ UNCHANGED <<db, gitWorktrees, gitBranches, clock, faulty, call>>

\* The external tool stops failing for reasons outside the model
FaultsCease ==
    /\ faulty
    /\ faulty' = FALSE
    /\ UNCHANGED <<db, gitWorktrees, gitBranches, dirty, clock, call>>

\* Every step but the INSERT of create_worktree
NextBesidesInsert ==
    \/ \E p \in Procs, a \in Agents, b \in BaseBranches : create_worktree(p, a, b)
    \/ \E p \in Procs : create_add(p)
    \/ \E p \in Procs : create_now(p)
    \/ \E p \in Procs, a \in Agents, force \in BOOLEAN : remove_worktree(p, a, force)
    \/ \E p \in Procs : remove_wt(p)
    \/ \E p \in Procs : remove_branch(p)
    \/ \E p \in Procs : remove_delete(p)
    \/ \E p \in Procs, a \in Agents : update_last_active(p, a)
    \/ \E p \in Procs : touch_update(p)
    \/ \E p \in Procs, T \in Thresholds : cleanup_stale_worktrees(p, T)
    \/ \E p \in Procs : sweep_list(p)
    \/ \E p \in Procs : sweep_loop(p)
    \/ \E p \in Procs : Return(p)
    \/ \E a \in Agents : AgentEdits(a)
    \/ FaultsCease

Next ==
    \/ NextBesidesInsert
    \/ \E p \in Procs : create_insert(p)

Spec == Init /\ [][Next]_vars

\* The runs in which no INSERT of create_worktree fails: a call whose INSERT
\* would meet an existing row waits
NextInsertOk ==
    \/ NextBesidesInsert
    \/ \E p \in Procs : create_insert(p) /\ call'[p].result # "IntegrityError"

SpecInsertOk == Init /\ [][NextInsertOk]_vars

\* The lifecycle methods together with detect_conflicts
NextAll ==
    \/ Next
    \/ \E p \in Procs, a \in Agents, b \in BaseBranches : detect_conflicts(p, a, b)
    \/ \E p \in Procs : dry_run_merge(p, CoreReports)

SpecAll == Init /\ [][NextAll]_vars

\* One caller checking agents for conflicts while agent a1 has a worktree
\* (the state after create_worktree("a1") at time 1)
InitDetect ==
    /\ db = [a \in {"a1"} |-> Row(a, WorktreePath(a), BranchName(a),
                                  isoformat(1), isoformat(1), "active")]
    /\ gitWorktrees = {WorktreePath("a1")}
    /\ gitBranches = {<<"main">>, BranchName("a1")}
    /\ dirty = {}
    /\ clock = 1
    /\ faulty = TRUE
    /\ call = [p \in Procs |-> Idle]

NextDetect ==
    \/ \E a \in Agents, b \in BaseBranches : detect_conflicts("p1", a, b)
    \/ dry_run_merge("p1", Reports)
    \/ Return("p1")

SpecDetect == InitDetect /\ [][NextDetect]_vars

\* ================================================================== claims
\* p has a finished call of the given method with the given result
Ended(p, op, result) ==
    call[p].pc = "done" /\ call[p].op = op /\ call[p].result = result

\* No caller is inside a call
Quiescent == \A p \in Procs : call[p].pc \in {"idle", "done"}

\* The step is taken by caller p: its frame changes in more than the note of
\* a rival's INSERT, which the rival's step writes
StepOf(p) == [call'[p] EXCEPT !.rival_inserted = call[p].rival_inserted] # call[p]

\* C1: between calls, whenever the table holds a row for an agent, the git
\* worktree at the row's path and the row's branch both exist.
LockStep ==
    Quiescent =>
        \A a \in DOMAIN db : db[a].path \in gitWorktrees /\ db[a].branch \in gitBranches

\* C2: create_worktree(a) while a row for a exists ends with the already-exists
\* ValueError in its first step, having run no git command and committed no
\* statement, and the table, the worktrees and the branches are as before.
CreateExistingRejected ==
    [][\A p \in Procs :
        (call[p].pc = "idle" /\ call'[p].op = "create" /\ call'[p].agent_id \in DOMAIN db)
        => /\ Ended(p, "create", "ValueError: already exists")'
           /\ call'[p].ext = {}
           /\ call'[p].committed = {}
           /\ UNCHANGED <<db, gitWorktrees, gitBranches, dirty>>]_vars

\* C2 happens: a create_worktree call was rejected because the row exists
CreateExistingRejectedSeen ==
    \E p \in Procs : Ended(p, "create", "ValueError: already exists")
                     /\ call[p].agent_id \in DOMAIN db

\* C3: when create_worktree(a) returns, a lookup of a gives a worktree with
\* status active and created_at = last_active, and every listing holds that
\* worktree.
CreateThenLookup ==
    [][\A p \in Procs :
        (call[p].pc = "create_insert" /\ Ended(p, "create", "returned")')
        => LET a == call[p].agent_id
               w == get_worktree(db', a)
           IN /\ w # None
              /\ w[1].agent_id = a
              /\ w[1].status = "active"
              /\ w[1].created_at = w[1].last_active
              /\ \A listing \in list_worktrees(db') :
                   \E k \in DOMAIN listing : listing[k] = w[1]]_vars

\* C3 happens: a create_worktree call has returned and its row is in the table
CreateReturned ==
    \E p \in Procs : Ended(p, "create", "returned") /\ call[p].agent_id \in DOMAIN db

\* C4: a create_worktree call whose git worktree add fails (nothing is
\* materialized) ends there with CalledProcessError, and the table is as it
\* was; git worktree add fails whenever the base branch is missing, the path
\* is taken or the branch exists; a call that ended so committed nothing.
CreateAddFailureWritesNothing ==
    [][\A p \in Procs :
        /\ (call[p].pc = "create_add" /\ StepOf(p)
              /\ (gitWorktrees' = gitWorktrees
                    \/ ~CanWorktreeAdd(WorktreePath(call[p].agent_id),
                                       BranchName(call[p].agent_id), call[p].base_branch)))
           => /\ Ended(p, "create", "CalledProcessError")'
              /\ db' = db
        /\ Ended(p, "create", "CalledProcessError")'
           => call'[p].committed = {} /\ call'[p].ext = {"worktree add"}]_vars

\* C4 happens: a create_worktree call failed in git worktree add and the
\* agent has no row
CreateAddFailed ==
    \E p \in Procs : Ended(p, "create", "CalledProcessError")
                     /\ call[p].agent_id \notin DOMAIN db

\* C5: remove_worktree(a) while no row for a exists ends with the not-found
\* ValueError in its first step, having run no git command and committed no
\* statement, and the table, the worktrees and the branches are as before.
RemoveUnknownRejected ==
    [][\A p \in Procs :
        (call[p].pc = "idle" /\ call'[p].op = "remove" /\ call'[p].agent_id \notin DOMAIN db)
        => /\ Ended(p, "remove", "ValueError: does not exist")'
           /\ call'[p].ext = {}
           /\ call'[p].committed = {}
           /\ UNCHANGED <<db, gitWorktrees, gitBranches, dirty>>]_vars

\* C5 happens: a remove_worktree call was rejected because there is no row
RemoveUnknownRejectedSeen ==
    \E p \in Procs : Ended(p, "remove", "ValueError: does not exist")
                     /\ call[p].agent_id \notin DOMAIN db

\* C6: when remove_worktree(a) returns, a lookup of a gives None, no listing
\* holds a, and the rows of all other agents are as before; an agent without
\* a row gets one only by the INSERT of a create_worktree call that returns.
RemoveThenAbsent ==
    [][/\ \A p \in Procs :
            (call[p].pc = "remove_delete" /\ Ended(p, "remove", "returned")')
            => LET a == call[p].agent_id
               IN /\ get_worktree(db', a) = None
                  /\ \A listing \in list_worktrees(db') :
                       \A k \in DOMAIN listing : listing[k].agent_id # a
                  /\ \A x \in DOMAIN db \ {a} : x \in DOMAIN db' /\ db'[x] = db[x]
       /\ \A a \in Agents :
            (a \notin DOMAIN db /\ a \in DOMAIN db')
            => \E p \in Procs : /\ call[p].pc = "create_insert"
                                /\ call[p].agent_id = a
                                /\ Ended(p, "create", "returned")']_vars

\* C6 happens: a remove_worktree call has returned while another agent has a row
RemoveReturned ==
    \E p \in Procs : /\ Ended(p, "remove", "returned")
                     /\ call[p].agent_id \notin DOMAIN db
                     /\ DOMAIN db # {}

\* C7: a remove_worktree call whose git worktree remove or git branch -D
\* fails (the worktree, or the branch, is still there after the step) ends
\* there with CalledProcessError and the table is as it was; a call that
\* ended so committed nothing.
RemoveFailureKeepsRecord ==
    [][\A p \in Procs :
        /\ (call[p].op = "remove" /\ StepOf(p)
              /\ \/ call[p].pc = "remove_wt" /\ gitWorktrees' = gitWorktrees
                 \/ call[p].pc = "remove_branch" /\ gitBranches' = gitBranches)
           => /\ Ended(p, "remove", "CalledProcessError")'
              /\ db' = db
        /\ Ended(p, "remove", "CalledProcessError")' => call'[p].committed = {}]_vars

\* C7 happens: a remove_worktree call failed in git branch -D, after its git
\* worktree remove, and the agent's row is still there
RemoveBranchFailed ==
    \E p \in Procs : /\ Ended(p, "remove", "CalledProcessError")
                     /\ "branch -D" \in call[p].ext
                     /\ call[p].agent_id \in DOMAIN db

\* C8: every UPDATE of update_last_active(a) on an existing row strictly
\* increases the row's last_active; no step ever decreases the last_active of
\* a row; update_last_active on an agent without a row returns and leaves the
\* table unchanged.
LastActiveMonotone ==
    [][/\ \A a \in DOMAIN db \cap DOMAIN db' :
            fromisoformat(db'[a].last_active) >= fromisoformat(db[a].last_active)
       /\ \A p \in Procs :
            (call[p].pc = "touch_update" /\ StepOf(p))
            => /\ Ended(p, "touch", "returned")'
               /\ IF call[p].agent_id \in DOMAIN db
                  THEN /\ call[p].agent_id \in DOMAIN db'
                       /\ fromisoformat(db'[call[p].agent_id].last_active)
                            > fromisoformat(db[call[p].agent_id].last_active)
                  ELSE db' = db]_vars

\* C9: the sweep removes the worktree of an agent only if, as the table
\* stands at that moment, the agent has a row whose last_active lies more
\* than the threshold before the sweep's clock reading; all other agents'
\* worktrees are left alone, whatever other callers do during the sweep.
SweepRemovesOnlyStale ==
    [][\A p \in Procs :
        (call[p].op = "sweep" /\ StepOf(p) /\ gitWorktrees' # gitWorktrees)
        => /\ call[p].agent_id \in DOMAIN db
           /\ IsStale(WorktreeInfo(db[call[p].agent_id]), call[p].now, call[p].threshold)]_vars

\* The agents of a listing that are stale for the sweep that made it
StaleListed(f) ==
    {f.worktrees[k].agent_id :
        k \in {j \in DOMAIN f.worktrees : IsStale(f.worktrees[j], f.now, f.threshold)}}

\* C10: a sweep always ends by returning, never by an exception; when it has
\* returned it has called remove_worktree for every stale worktree of its
\* listing and for no other, and its count is the number of those calls that
\* got as far as their committed DELETE.
SweepBestEffort ==
    \A p \in Procs :
        (call[p].pc = "done" /\ call[p].op = "sweep")
        => /\ call[p].result = "returned"
           /\ call[p].attempted = StaleListed(call[p])
           /\ call[p].cleaned = Cardinality(call[p].committed)

\* C10 happens: a sweep listed two stale worktrees, failed to remove the
\* first, removed the second and returned 1
SweepPastFailure ==
    \E p \in Procs :
        /\ Ended(p, "sweep", "returned")
        /\ Len(call[p].worktrees) = 2
        /\ call[p].attempted = {call[p].worktrees[1].agent_id, call[p].worktrees[2].agent_id}
        /\ call[p].committed = {call[p].worktrees[2].agent_id}
        /\ call[p].cleaned = 1

\* C11: no step of a detect_conflicts call, whatever its outcome, changes
\* the table, the worktrees, the branches or the files of a worktree.
DetectReadOnly ==
    [][\A p \in Procs :
        (call'[p].op = "detect" /\ StepOf(p))
        => UNCHANGED <<db, gitWorktrees, gitBranches, dirty>>]_vars

\* C11 happens: a detect_conflicts call has returned conflicts
DetectReturnedConflicts ==
    \E p \in Procs : Ended(p, "detect", "returned") /\ call[p].conflicts # <<>>

\* p has a finished detect_conflicts call that ran the dry-run merge
Detected(p) == Ended(p, "detect", "returned")

\* The line begins with the phrase of a file changed on both sides
IsChangedLine(line) == startswith(line, "changed in both")

\* The lines of the report that begin with the phrase, in order
ChangedLines(stdout) == SelectSeq(split_on(stdout, "\n"), IsChangedLine)

\* C12 as stated: whatever the report, detect_conflicts returns one
\* ConflictFile for each of its lines that begin with "changed in both", with
\* the line's last token as path and type content, and nothing else.
OneConflictPerChangedLine ==
    \A p \in Procs :
        Detected(p)
        => LET ls == ChangedLines(call[p].report.stdout)
           IN call[p].conflicts =
                [k \in DOMAIN ls |-> ConflictFile(split(ls[k])[Len(split(ls[k]))], "content")]

\* The report is one the code takes to have conflicts
HasConflicts(report) ==
    report.returncode # 0 \/ contains(lower(report.stdout), "conflict")

\* The line begins with the phrase and has at least four tokens
IsPathLine(line) == IsChangedLine(line) /\ Len(split(line)) >= 4

\* C12 as amended: for a report with non-zero status or with "conflict" in its
\* text, detect_conflicts returns one ConflictFile for each line that begins
\* with "changed in both" and has at least four tokens, with the line's last
\* token as path and type content, in the order of the lines, and nothing
\* else; for any other report it returns nothing.
OneConflictPerPathLine ==
    \A p \in Procs :
        Detected(p)
        => LET ls == SelectSeq(split_on(call[p].report.stdout, "\n"), IsPathLine)
           IN call[p].conflicts =
                IF HasConflicts(call[p].report)
                THEN [k \in DOMAIN ls |->
                        [path |-> split(ls[k])[Len(split(ls[k]))], conflict_type |-> "content",
                         our_version |-> None, their_version |-> None, base_version |-> None]]
                ELSE <<>>

\* C12 happens: a report with non-zero status whose one line is
\* "changed in both x f.txt" gave exactly one ConflictFile, for f.txt
OneChangedLineSeen ==
    \E p \in Procs :
        /\ Detected(p)
        /\ call[p].report = Report(1, "changed in both x f.txt")
        /\ Len(call[p].conflicts) = 1
        /\ call[p].conflicts[1].path = "f.txt"
        /\ call[p].conflicts[1].conflict_type = "content"

\* C13: a dry-run merge that ended with status zero and whose report does not
\* contain "conflict" gives an empty result, whatever lines the report has.
CleanReportGivesNone ==
    \A p \in Procs :
        (Detected(p) /\ call[p].report.returncode = 0
           /\ ~contains(lower(call[p].report.stdout), "conflict"))
        => call[p].conflicts = <<>>

\* C13 happens: a report with status zero and a "changed in both" line, but
\* without "conflict" in it, gave an empty result
CleanReportSeen ==
    \E p \in Procs :
        /\ Detected(p)
        /\ call[p].report = Report(0, "changed in both x f.txt")
        /\ call[p].conflicts = <<>>

\* C14: whenever the dry-run merge signals a conflict (non-zero status, or
\* "conflict" in its report), detect_conflicts returns a non-empty result.
ConflictNeverMissed ==
    \A p \in Procs :
        (Detected(p) /\ HasConflicts(call[p].report)) => call[p].conflicts # <<>>

\* C15 as stated: of two create_worktree calls for one agent that have both
\* passed the existence check, at most one returns: a call whose rival inserted
\* the agent's row after this call's check never returns.
AtMostOneCreateWins ==
    \A p \in Procs : Ended(p, "create", "returned") => ~call[p].rival_inserted

\* C15 as amended: a create_worktree call that reaches its INSERT while the
\* table holds a row for the agent ends with IntegrityError and leaves the
\* table as it is: no second row, no overwritten row, no silent return.  (Both
\* calls return only when the first one's row was deleted in between.)
CreateRaceLoserFails ==
    [][\A p \in Procs :
         (/\ call[p].pc = "create_insert"
          /\ call'[p].pc # "create_insert"
          /\ call[p].agent_id \in DOMAIN db)
         => (call'[p].pc = "done" /\ call'[p].result = "IntegrityError" /\ db' = db)]_vars

\* C15 happens: a create_worktree call whose rival inserted the row after this
\* call's check has ended with IntegrityError
CreateRaceLost ==
    \E p \in Procs : Ended(p, "create", "IntegrityError") /\ call[p].rival_inserted

\* In this step caller p's create_worktree(a) commits its INSERT and returns
CreateSucceeds(p, a) ==
    /\ call[p].op = "create" /\ call[p].pc = "create_insert" /\ call[p].agent_id = a
    /\ call'[p].pc = "done" /\ call'[p].result = "returned"

\* In this step caller p's remove_worktree(a), called directly or by the
\* sweep, commits its DELETE and returns
RemoveSucceeds(p, a) ==
    /\ call[p].pc = "remove_delete" /\ call[p].agent_id = a
    /\ \/ call[p].op = "remove" /\ call'[p].pc = "done" /\ call'[p].result = "returned"
       \/ call[p].op = "sweep" /\ call'[p].cleaned = call[p].cleaned + 1

\* C16: every stored row has status active; an agent's row appears only in the
\* step in which a create_worktree call for that agent succeeds, and
\* disappears only in the step in which a remove_worktree call for that agent
\* (direct or from the sweep) succeeds.
OnlyActiveAndAbsent ==
    [][/\ \A a \in DOMAIN db' : db'[a].status = "active"
       /\ \A a \in Agents :
            /\ (a \notin DOMAIN db /\ a \in DOMAIN db') => \E p \in Procs : CreateSucceeds(p, a)
            /\ (a \in DOMAIN db /\ a \notin DOMAIN db') => \E p \in Procs : RemoveSucceeds(p, a)]_vars

\* C16 happens: a sweep has removed a row and a row inserted by a create_worktree
\* call is stored
LifecycleSeen ==
    /\ \E p \in Procs : Ended(p, "sweep", "returned") /\ call[p].cleaned >= 1
    /\ \E q \in Procs : Ended(q, "create", "returned") /\ call[q].agent_id \in DOMAIN db

\* C17: every stored row of agent a has path worktree_base_dir/worktree-a and
\* branch agent-a; no step changes path, branch or created_at of a row that is
\* stored before and after it; rows of distinct agents differ in path and in
\* branch.
DerivedColumnsFixed ==
    [][\A a \in DOMAIN db' :
         /\ db'[a].agent_id = a
         /\ db'[a].path = <<"worktree_base_dir", "worktree-", a>>
         /\ db'[a].branch = <<"agent-", a>>
         /\ a \in DOMAIN db =>
                /\ db'[a].path = db[a].path
                /\ db'[a].branch = db[a].branch
                /\ db'[a].created_at = db[a].created_at
         /\ \A b \in DOMAIN db' \ {a} :
                db'[b].path # db'[a].path /\ db'[b].branch # db'[a].branch]_vars

\* C17 happens: two agents have rows, and an update_last_active call has
\* written one of them after its creation
TouchedRowSeen ==
    /\ Cardinality(DOMAIN db) = 2
    /\ \E p \in Procs :
         /\ Ended(p, "touch", "returned")
         /\ call[p].agent_id \in DOMAIN db
         /\ db[call[p].agent_id].last_active # db[call[p].agent_id].created_at

\* C18: once the git tool no longer fails on its own, a forced
\* remove_worktree(a) that follows a remove_worktree(a) which ended with
\* CalledProcessError (the caller q of the failed call still holds that result)
\* does not end with CalledProcessError in any of its steps: it goes on to
\* delete the row.
RetryAfterFailureSucceeds ==
    [][\A p, q \in Procs :
         (/\ p # q
          /\ ~faulty
          /\ Ended(q, "remove", "CalledProcessError")
          /\ call'[q] = call[q]
          /\ call[p].op = "remove"
          /\ call[p].agent_id = call[q].agent_id
          /\ call[p].force
          /\ StepOf(p))
         => call'[p].result # "CalledProcessError"]_vars

\* Agent a has a git worktree or a git branch
HasExternal(a) ==
    <<"worktree_base_dir", "worktree-", a>> \in gitWorktrees \/ <<"agent-", a>> \in gitBranches

\* A create_worktree call for a is between its git worktree add and its INSERT
CreateInFlight(a) ==
    \E p \in Procs :
        /\ call[p].op = "create" /\ call[p].agent_id = a
        /\ call[p].pc \in {"create_now", "create_insert"}

\* C19: in the runs in which no INSERT of create_worktree fails, an agent's
\* worktree or branch exists without a row only while a create_worktree call
\* for that agent is between its git worktree add and its INSERT.
OrphanOnlyInsideCreate ==
    \A a \in Agents : (HasExternal(a) /\ a \notin DOMAIN db) => CreateInFlight(a)

\* C19 happens: git commands of create_worktree and of remove_worktree have
\* failed, and a worktree with its row exists
NoOrphanAfterFailures ==
    /\ \E a \in DOMAIN db : <<"worktree_base_dir", "worktree-", a>> \in gitWorktrees
    /\ \E p \in Procs : Ended(p, "create", "CalledProcessError")
    /\ \E q \in Procs : Ended(q, "remove", "CalledProcessError")

\* C20: no step of an update_last_active call changes the set of agents that
\* have a row, whatever the other callers have done before it.
HeartbeatNeverCreates ==
    [][\A p \in Procs :
         (call[p].op = "touch" /\ StepOf(p)) => DOMAIN db' = DOMAIN db]_vars

\* C20 happens: an update_last_active call for an agent has committed its
\* UPDATE, a remove_worktree call has deleted the agent's row, and the agent
\* has no row
HeartbeatAfterRemove ==
    \E p, q \in Procs :
        /\ Ended(p, "touch", "returned")
        /\ Ended(q, "remove", "returned")
        /\ call[p].agent_id = call[q].agent_id
        /\ call[p].agent_id \in call[p].committed
        /\ call[p].agent_id \notin DOMAIN db

====
